---- MODULE Spec2Model ----
(***************************************************************************)
(* MonoAssembly (src/src/api/MonoAssembly.ts): the assembly facade of the  *)
(* Mono binding layer.  Every static operation allocates scratch memory,   *)
(* makes bridged native calls, and returns a facade or throws.  The host   *)
(* side is single-threaded and every native call is synchronous, so one    *)
(* API call is one atomic action; the order of the steps inside a call is  *)
(* kept in `log`, the trace of the most recent call.                        *)
(***************************************************************************)
EXTENDS Integers, Sequences, FiniteSets, TLC

VARIABLES
  mem,       \* scratch buffers allocated by the most recent call: id -> buffer
  nextBuf,   \* id the scratch allocator hands out next (never reused)
  bufBase,   \* value of nextBuf when the most recent call was entered
  log,       \* ordered trace of the most recent call
  asm,       \* native runtime: assembly name -> address of the loaded assembly
  refs,      \* native runtime: address -> outstanding references
  facades,   \* every MonoAssembly object constructed so far
  given,     \* per facade: the operation that built it and the address it was built for
  releases,  \* address -> number of mono_assembly_close calls issued with it
  tried,     \* names a loading operation has been called with
  heldAt,    \* name -> address a load returned for it, until close() is called on that address
  result,    \* outcome of the most recent call
  ncalls,    \* number of API calls made
  nloads,    \* number of calls of the loading operations made
  crashed    \* the native runtime aborted the process

vars ==
  <<mem, nextBuf, bufBase, log, asm, refs, facades, given, releases, tried, heldAt,
    result, ncalls, nloads, crashed>>

----------------------------------------------------------------------------
(* Bounds of the model. *)
MaxCalls == 3    \* API calls in one behaviour
MaxLoads == 1    \* of which calls of the five loading operations
MaxAddr == 2     \* addresses the runtime places assemblies at: 1..MaxAddr
MaxStatus == 4   \* largest integer the native call leaves in the status slot

(* Program constants. *)
NULL == 0
pointerSize == 8
IntBytes == 4

AsmAddrs == 1..MaxAddr
BogusAddr == MaxAddr + 1          \* an address of no native object
Addresses == NULL..BogusAddr
StatusCodes == {-1, 0, 2, MaxStatus}

(* Strings are sequences of code points. *)
Foo == <<70, 111, 111>>
Be == <<66, 233>>
Libs == <<47, 108>>
Names == {Foo, Be}
LoadArgs == {<<Foo, Libs>>, <<Be, <<>>>>}                  \* (name, basedir)
LoadFullArgs == {<<Foo, Libs, TRUE>>, <<Be, <<>>, FALSE>>}   \* (name, basedir, refOnly)
LoadFromFullArgs == {<<Foo, FALSE>>, <<Be, TRUE>>}           \* (name, refOnly)
Images == {[address |-> 7]}

----------------------------------------------------------------------------
(* Memory.allocUtf8String: UTF-8 bytes of the text plus a terminating 0.   *)
Utf8Bytes(cp) ==
  IF cp < 128 THEN <<cp>> ELSE <<192 + (cp \div 64), 128 + (cp % 64)>>

RECURSIVE Utf8Encode(_)
Utf8Encode(s) ==
  IF s = <<>> THEN <<>> ELSE Utf8Bytes(Head(s)) \o Utf8Encode(Tail(s))

(* The native side reads a char* up to the first 0 byte. *)
RECURSIVE Utf8Decode(_)
Utf8Decode(bytes) ==
  IF bytes = <<>> \/ Head(bytes) = 0 THEN <<>>
  ELSE IF Head(bytes) < 128 THEN <<Head(bytes)>> \o Utf8Decode(Tail(bytes))
  ELSE <<(Head(bytes) - 192) * 64 + (bytes[2] - 128)>> \o Utf8Decode(Tail(Tail(bytes)))

Ev(ev, fn, bufs, val, st) ==
  [ev |-> ev, fn |-> fn, bufs |-> bufs, val |-> val, st |-> st]

(* State of a call on entry: no scratch buffer of its own yet, empty trace. *)
Enter ==
  [mem |-> [b \in {} |-> 0], nextBuf |-> nextBuf, log |-> <<>>,
   asm |-> asm, refs |-> refs, rel |-> releases, ret |-> 0]

allocUtf8String(m, str) ==
  [m EXCEPT !.mem = @ @@ (m.nextBuf :>
                [kind |-> "utf8", bytes |-> Utf8Encode(str) \o <<0>>]),
            !.nextBuf = @ + 1,
            !.log = Append(@, Ev("allocUtf8String", "", <<m.nextBuf>>, 0, 0)),
            !.ret = m.nextBuf]

(* Memory.alloc(size): a fresh zero-filled block. *)
alloc(m, size) ==
  [m EXCEPT !.mem = @ @@ (m.nextBuf :> [kind |-> "raw", bytes |-> [i \in 1..size |-> 0]]),
            !.nextBuf = @ + 1,
            !.log = Append(@, Ev("alloc", "", <<m.nextBuf>>, size, 0)),
            !.ret = m.nextBuf]

(* A C int in memory: IntBytes little-endian bytes, two's complement. *)
RECURSIVE IntToBytes(_, _)
IntToBytes(v, n) ==
  IF n = 0 THEN <<>> ELSE <<v % 256>> \o IntToBytes((v - (v % 256)) \div 256, n - 1)

RECURSIVE BytesToInt(_, _)
BytesToInt(bytes, n) ==
  IF n = 1 THEN (IF bytes[1] >= 128 THEN bytes[1] - 256 ELSE bytes[1])
  ELSE bytes[1] + 256 * BytesToInt(Tail(bytes), n - 1)

(* NativePointer.readInt: the first IntBytes bytes as a signed integer. *)
readInt(m, buf) ==
  LET v == BytesToInt(m.mem[buf].bytes, IntBytes)
  IN [m EXCEPT !.log = Append(@, Ev("readInt", "", <<buf>>, v, 0)), !.ret = v]

----------------------------------------------------------------------------
(* The bridged native functions.  The runtime is opaque: a load either     *)
(* fails (null address) or yields the assembly registered under the name,  *)
(* adding one reference; it leaves any status integer in the slot.         *)
LoadOps == {"load", "loadFull", "loadFrom", "loadFromFull", "loadWithPartialName"}

LoadFns ==
  {"mono_assembly_load", "mono_assembly_load_full", "mono_assembly_load_from",
   "mono_assembly_load_from_full", "mono_assembly_load_with_partial_name"}

(* What a load call may do: fail and leave any status, or succeed and     *)
(* leave the slot at MONO_IMAGE_OK or at a stale non-zero value.           *)
Outcomes ==
  [addr : {NULL}, status : StatusCodes] \cup [addr : AsmAddrs, status : {0, MaxStatus}]

(* A successful load yields the assembly already registered under the name, *)
(* or places a new one at the lowest address nothing is held at.            *)
LoadOutcome(m, aname, out) ==
  \/ out.addr = NULL
  \/ /\ out.addr # NULL
     /\ IF m.asm[aname] # NULL THEN out.addr = m.asm[aname]
        ELSE /\ m.refs[out.addr] = 0
             /\ \A a \in AsmAddrs : a < out.addr => m.refs[a] > 0

NativeLoad(m, fn, aname, bufs, status, out) ==
  [m EXCEPT !.mem[status].bytes =
                IntToBytes(out.status, IntBytes) \o SubSeq(@, IntBytes + 1, Len(@)),
            !.asm[aname] = IF out.addr # NULL THEN out.addr ELSE @,
            !.refs = IF out.addr # NULL THEN [@ EXCEPT ![out.addr] = @ + 1] ELSE @,
            !.log = Append(@, Ev("native", fn, bufs, out.addr, out.status)),
            !.ret = out.addr]

mono_assembly_name_new(m, buf) ==
  [m EXCEPT !.log = Append(@, Ev("native", "mono_assembly_name_new", <<buf>>, 0, 0)),
            !.ret = Utf8Decode(m.mem[buf].bytes)]

mono_assembly_load(m, aname, basedir, status, out) ==
  NativeLoad(m, "mono_assembly_load", aname, <<basedir, status>>, status, out)

mono_assembly_load_full(m, aname, basedir, status, refOnly, out) ==
  NativeLoad(m, "mono_assembly_load_full", aname, <<basedir, status>>, status, out)

mono_assembly_load_from(m, image, fname, status, out) ==
  NativeLoad(m, "mono_assembly_load_from", Utf8Decode(m.mem[fname].bytes),
             <<fname, status>>, status, out)

mono_assembly_load_from_full(m, image, fname, status, refOnly, out) ==
  NativeLoad(m, "mono_assembly_load_from_full", Utf8Decode(m.mem[fname].bytes),
             <<fname, status>>, status, out)

mono_assembly_load_with_partial_name(m, name, status, out) ==
  NativeLoad(m, "mono_assembly_load_with_partial_name", Utf8Decode(m.mem[name].bytes),
             <<name, status>>, status, out)

mono_assembly_loaded(m, aname) ==
  [m EXCEPT !.log = Append(@, Ev("native", "mono_assembly_loaded", <<>>, m.asm[aname], 0)),
            !.ret = m.asm[aname]]

(* Releases one reference; the assembly goes when the last one is released. *)
mono_assembly_close(m, address) ==
  [m EXCEPT !.refs = IF address \in AsmAddrs /\ @[address] > 0
                     THEN [@ EXCEPT ![address] = @ - 1] ELSE @,
            !.asm = IF address \in AsmAddrs /\ m.refs[address] = 1
                    THEN [n \in Names |-> IF @[n] = address THEN NULL ELSE @[n]] ELSE @,
            !.rel[address] = @ + 1,
            !.log = Append(@, Ev("native", "mono_assembly_close", <<>>, address, 0)),
            !.ret = 0]

----------------------------------------------------------------------------
(* MonoImageOpenStatus, the numeric enumeration imported from 'core'. *)
MonoImageOpenStatus ==
  <<"MONO_IMAGE_OK", "MONO_IMAGE_ERROR_ERRNO",
    "MONO_IMAGE_MISSING_ASSEMBLYREF", "MONO_IMAGE_IMAGE_INVALID">>

EnumCodes == 0..(Len(MonoImageOpenStatus) - 1)
EnumLabels == {MonoImageOpenStatus[i] : i \in 1..Len(MonoImageOpenStatus)}

(* Variants of StatusLabel: the raw number for an unknown code; the index *)
(* wrapped into the enumeration.                                          *)
StatusLabelRaw(code) ==
  IF code \in EnumCodes THEN MonoImageOpenStatus[code + 1] ELSE ToString(code)

StatusLabelWrap(code) ==
  MonoImageOpenStatus[(code % Len(MonoImageOpenStatus)) + 1]

(* MonoImageOpenStatus[code] appended to a string: a number that is no key *)
(* of the enumeration indexes to undefined, which prints as "undefined".   *)
StatusLabel(code) ==
  IF code \in EnumCodes THEN MonoImageOpenStatus[code + 1] ELSE "undefined"

(* MonoBase.fromAddress: a wrapper around the address, nothing else. *)
fromAddress(address) == [address |-> address, closes |-> 0]

NoResult ==
  [op |-> "none", name |-> <<>>, kind |-> "none", address |-> NULL, facade |-> 0,
   status |-> 0, msg |-> <<>>]

(* The call ends: its machine state and outcome become the program's. *)
Leave(m, res, fs, gv) ==
  /\ mem' = m.mem
  /\ nextBuf' = m.nextBuf
  /\ bufBase' = nextBuf
  /\ log' = Append(m.log, Ev(res.kind, res.op, <<>>, res.address, 0))
  /\ asm' = m.asm
  /\ refs' = m.refs
  /\ releases' = m.rel
  /\ facades' = fs
  /\ given' = gv
  /\ result' = res
  /\ ncalls' = ncalls + 1
  /\ nloads' = IF res.op \in LoadOps THEN nloads + 1 ELSE nloads
  /\ tried' = IF res.op \in LoadOps THEN tried \cup {res.name} ELSE tried
  /\ heldAt' =
       IF res.op \in LoadOps /\ res.kind = "return"
       THEN [heldAt EXCEPT ![res.name] = res.address]
       ELSE IF res.op = "close"
       THEN [n \in Names |-> IF heldAt[n] = res.address THEN NULL ELSE heldAt[n]]
       ELSE heldAt

(* return MonoAssembly.fromAddress(address) *)
Return(op, name, m, address) ==
  LET facade == fromAddress(address)
  IN Leave(m, [op |-> op, name |-> name, kind |-> "return", address |-> facade.address,
               facade |-> Len(facades) + 1, status |-> 0, msg |-> <<>>],
           Append(facades, facade),
           Append(given, [op |-> op, name |-> name, address |-> address]))

(* throw new Error(message) *)
Throw(op, name, m, code, message) ==
  Leave(m, [op |-> op, name |-> name, kind |-> "throw", address |-> NULL, facade |-> 0,
            status |-> code, msg |-> message],
        facades, given)

(* Variants of Checked: the null check left out; the status tested in    *)
(* place of the address.                                                  *)
CheckedNoThrow(op, name, m, status, address) ==
  Return(op, name, m, address)

CheckedByStatus(op, name, m, status, address) ==
  LET r == readInt(m, status)
  IN IF r.ret # 0
     THEN Throw(op, name, r, r.ret,
                <<"Failed loading MonoAssembly! Error: ", StatusLabel(r.ret)>>)
     ELSE Return(op, name, r, address)

(* if (address.isNull()) throw new Error(... + MonoImageOpenStatus[status.readInt()]) *)
(* return MonoAssembly.fromAddress(address)                                           *)
Checked(op, name, m, status, address) ==
  IF address = NULL
  THEN LET r == readInt(m, status)
       IN Throw(op, name, r, r.ret,
                <<"Failed loading MonoAssembly! Error: ", StatusLabel(r.ret)>>)
  ELSE Return(op, name, m, address)

CanCall == ncalls < MaxCalls /\ ~crashed
CanLoad == CanCall /\ nloads < MaxLoads

----------------------------------------------------------------------------
(* The operations of MonoAssembly.  Each statement's effect on the call's *)
(* machine state is bound in turn (\E m \in {e} names the value e).       *)

(* Variant of load: a null result is retried once. *)
loadRetry(name, basedir) ==
  /\ CanLoad
  /\ \E out \in Outcomes :
     \E m1 \in {allocUtf8String(Enter, name)} :
     \E m2 \in {mono_assembly_name_new(m1, m1.ret)} :
     \E m3 \in {alloc(m2, pointerSize)} :
     \E m4 \in {allocUtf8String(m3, basedir)} :
       /\ LoadOutcome(m4, m2.ret, out)
       /\ \E m5 \in {mono_assembly_load(m4, m2.ret, m4.ret, m3.ret, out)} :
          \E m6 \in {IF m5.ret = NULL
                      THEN mono_assembly_load(m5, m2.ret, m4.ret, m3.ret, out) ELSE m5} :
            Checked("load", name, m6, m3.ret, m6.ret)
  /\ UNCHANGED crashed

load(name, basedir) ==
  /\ CanLoad
  /\ \E out \in Outcomes :
     \E m1 \in {allocUtf8String(Enter, name)} :
     \E m2 \in {mono_assembly_name_new(m1, m1.ret)} :
     \E m3 \in {alloc(m2, pointerSize)} :
     \E m4 \in {allocUtf8String(m3, basedir)} :
       /\ LoadOutcome(m4, m2.ret, out)
       /\ \E m5 \in {mono_assembly_load(m4, m2.ret, m4.ret, m3.ret, out)} :
            Checked("load", name, m5, m3.ret, m5.ret)
  /\ UNCHANGED crashed

loadFull(name, basedir, refOnly) ==
  /\ CanLoad
  /\ \E out \in Outcomes :
     \E m1 \in {allocUtf8String(Enter, name)} :
     \E m2 \in {mono_assembly_name_new(m1, m1.ret)} :
     \E m3 \in {alloc(m2, pointerSize)} :
     \E m4 \in {allocUtf8String(m3, basedir)} :
       /\ LoadOutcome(m4, m2.ret, out)
       /\ \E m5 \in {mono_assembly_load_full(m4, m2.ret, m4.ret, m3.ret, refOnly, out)} :
            Checked("loadFull", name, m5, m3.ret, m5.ret)
  /\ UNCHANGED crashed

(* Variants of loaded: a null result raises like the loads do; the name *)
(* handle is wrapped in place of the returned address.                   *)
loadedChecked(name) ==
  /\ CanCall
  /\ \E m1 \in {allocUtf8String(Enter, name)} :
     \E m2 \in {mono_assembly_name_new(m1, m1.ret)} :
     \E m3 \in {mono_assembly_loaded(m2, m2.ret)} :
       IF m3.ret = NULL
       THEN Throw("loaded", name, m3, 0, <<"Failed loading MonoAssembly! Error: ", "undefined">>)
       ELSE Return("loaded", name, m3, m3.ret)
  /\ UNCHANGED crashed

loadedWrongHandle(name) ==
  /\ CanCall
  /\ \E m1 \in {allocUtf8String(Enter, name)} :
     \E m2 \in {mono_assembly_name_new(m1, m1.ret)} :
     \E m3 \in {mono_assembly_loaded(m2, m2.ret)} :
       Return("loaded", name, m3, BogusAddr)
  /\ UNCHANGED crashed

loaded(name) ==
  /\ CanCall
  /\ \E m1 \in {allocUtf8String(Enter, name)} :
     \E m2 \in {mono_assembly_name_new(m1, m1.ret)} :
     \E m3 \in {mono_assembly_loaded(m2, m2.ret)} :
       Return("loaded", name, m3, m3.ret)
  /\ UNCHANGED crashed

loadFrom(image, name) ==
  /\ CanLoad
  /\ \E out \in Outcomes :
     \E m1 \in {alloc(Enter, pointerSize)} :
     \E m2 \in {allocUtf8String(m1, name)} :
       /\ LoadOutcome(m2, name, out)
       /\ \E m3 \in {mono_assembly_load_from(m2, image.address, m2.ret, m1.ret, out)} :
            Checked("loadFrom", name, m3, m1.ret, m3.ret)
  /\ UNCHANGED crashed

loadFromFull(image, name, refOnly) ==
  /\ CanLoad
  /\ \E out \in Outcomes :
     \E m1 \in {alloc(Enter, pointerSize)} :
     \E m2 \in {allocUtf8String(m1, name)} :
       /\ LoadOutcome(m2, name, out)
       /\ \E m3 \in {mono_assembly_load_from_full(m2, image.address, m2.ret, m1.ret,
                                                   refOnly, out)} :
            Checked("loadFromFull", name, m3, m1.ret, m3.ret)
  /\ UNCHANGED crashed

(* Variant of loadWithPartialName: the status is read before the null check. *)
loadWithPartialNameEagerRead(name) ==
  /\ CanLoad
  /\ \E out \in Outcomes :
     \E m1 \in {alloc(Enter, pointerSize)} :
     \E m2 \in {allocUtf8String(m1, name)} :
       /\ LoadOutcome(m2, name, out)
       /\ \E m3 \in {mono_assembly_load_with_partial_name(m2, m2.ret, m1.ret, out)} :
          \E m4 \in {readInt(m3, m1.ret)} :
            IF m3.ret = NULL
            THEN Throw("loadWithPartialName", name, m4, m4.ret,
                       <<"Failed loading MonoAssembly! Error: ", StatusLabel(m4.ret)>>)
            ELSE Return("loadWithPartialName", name, m4, m3.ret)
  /\ UNCHANGED crashed

loadWithPartialName(name) ==
  /\ CanLoad
  /\ \E out \in Outcomes :
     \E m1 \in {alloc(Enter, pointerSize)} :
     \E m2 \in {allocUtf8String(m1, name)} :
       /\ LoadOutcome(m2, name, out)
       /\ \E m3 \in {mono_assembly_load_with_partial_name(m2, m2.ret, m1.ret, out)} :
            Checked("loadWithPartialName", name, m3, m1.ret, m3.ret)
  /\ UNCHANGED crashed

(* Variants of close: the native call made with a null pointer; a local *)
(* guard that skips the native call once the facade has been closed.     *)
closeNull(f) ==
  /\ CanCall
  /\ \E m1 \in {mono_assembly_close(Enter, NULL)} :
        /\ Leave(m1, [op |-> "close", name |-> <<>>, kind |-> "return",
                      address |-> facades[f].address, facade |-> f, status |-> 0,
                      msg |-> <<>>],
                 [facades EXCEPT ![f].closes = @ + 1], given)
        /\ crashed' \in BOOLEAN

closeGuarded(f) ==
  /\ CanCall
  /\ \E address \in {facades[f].address} :
     \E m1 \in {IF facades[f].closes > 0 THEN Enter
                 ELSE mono_assembly_close(Enter, address)} :
        /\ Leave(m1, [op |-> "close", name |-> <<>>, kind |-> "return",
                      address |-> address, facade |-> f, status |-> 0, msg |-> <<>>],
                 [facades EXCEPT ![f].closes = @ + 1], given)
        /\ IF (address \in AsmAddrs /\ refs[address] > 0) \/ facades[f].closes > 0
           THEN crashed' = FALSE
           ELSE crashed' \in BOOLEAN

(* close(): mono_assembly_close(this.$address).  Releasing an address the  *)
(* runtime holds no reference to is undefined native behaviour: the call   *)
(* may go unnoticed or abort the process.                                  *)
close(f) ==
  /\ CanCall
  /\ \E address \in {facades[f].address} :
     \E m1 \in {mono_assembly_close(Enter, address)} :
        /\ Leave(m1, [op |-> "close", name |-> <<>>, kind |-> "return",
                      address |-> address, facade |-> f, status |-> 0, msg |-> <<>>],
                 [facades EXCEPT ![f].closes = @ + 1], given)
        /\ IF address \in AsmAddrs /\ refs[address] > 0
           THEN crashed' = FALSE
           ELSE crashed' \in BOOLEAN

(* MonoAssembly.fromAddress called by the host script on any address. *)
FromAddress(a) ==
  /\ CanCall
  /\ Return("fromAddress", <<>>, Enter, a)
  /\ UNCHANGED crashed

----------------------------------------------------------------------------
Init ==
  /\ mem = [b \in {} |-> 0]
  /\ nextBuf = 1
  /\ bufBase = 1
  /\ log = <<>>
  /\ asm = [n \in Names |-> NULL]
  /\ refs = [a \in AsmAddrs |-> 0]
  /\ facades = <<>>
  /\ given = <<>>
  /\ releases = [a \in Addresses |-> 0]
  /\ tried = {}
  /\ heldAt = [n \in Names |-> NULL]
  /\ result = NoResult
  /\ ncalls = 0
  /\ nloads = 0
  /\ crashed = FALSE

Next ==
  \/ \E a \in LoadArgs : load(a[1], a[2])
  \/ \E a \in LoadFullArgs : loadFull(a[1], a[2], a[3])
  \/ \E n \in Names : loaded(n)
  \/ \E i \in Images, n \in Names : loadFrom(i, n)
  \/ \E i \in Images, a \in LoadFromFullArgs : loadFromFull(i, a[1], a[2])
  \/ \E n \in Names : loadWithPartialName(n)
  \/ \E f \in 1..Len(facades) : close(f)
  \/ \E a \in Addresses : FromAddress(a)

Spec == Init /\ [][Next]_vars

----------------------------------------------------------------------------
(* Reading the trace of the most recent call. *)
Idx(ev) == {k \in 1..Len(log) : log[k].ev = ev}
LoadIdx == {k \in 1..Len(log) : log[k].ev = "native" /\ log[k].fn \in LoadFns}
LoadEv == log[CHOOSE k \in LoadIdx : TRUE]
IsLoadCall == result.op \in LoadOps /\ Cardinality(LoadIdx) = 1
Label == result.msg[2]
UnknownLabel == "undefined"

TypeOK ==
  /\ nextBuf \in Nat
  /\ ncalls \in 0..MaxCalls
  /\ crashed \in BOOLEAN
  /\ \A n \in Names : asm[n] \in {NULL} \cup AsmAddrs
  /\ \A a \in AsmAddrs : refs[a] \in Nat
  /\ Len(given) = Len(facades)

(* C1: in each of the five loading operations, when the native load call  *)
(* returns a null address the operation throws an error whose message     *)
(* ends in the label decoded from the integer the native call wrote into  *)
(* the status slot, and no facade is built.                               *)
C1_NullAddressThrowsDecodedStatus ==
  (IsLoadCall /\ LoadEv.val = NULL) =>
     /\ result.kind = "throw"
     /\ result.facade = 0
     /\ result.status = LoadEv.st
     /\ Len(result.msg) = 2
     /\ Label = (IF LoadEv.st \in EnumCodes THEN MonoImageOpenStatus[LoadEv.st + 1]
                 ELSE UnknownLabel)

C1_Witness ==
  /\ IsLoadCall /\ result.op = "load" /\ result.name = Foo
  /\ LoadEv.val = NULL /\ LoadEv.st = 2
  /\ result.kind = "throw" /\ Label = "MONO_IMAGE_MISSING_ASSEMBLYREF"

(* C2: in each of the five loading operations, when the native load call  *)
(* returns a non-null address a the operation returns a facade whose      *)
(* address is a in this and every later state, whatever integer is left   *)
(* in the status slot.                                                    *)
C2_NonNullAddressReturnsFacade ==
  /\ (IsLoadCall /\ LoadEv.val # NULL) =>
        /\ result.kind = "return"
        /\ result.address = LoadEv.val
        /\ result.facade = Len(facades)
        /\ facades[result.facade].address = LoadEv.val
  /\ \A i \in 1..Len(facades) :
        given[i].op \in LoadOps => facades[i].address = given[i].address /\ given[i].address # NULL

C2_Witness ==
  /\ IsLoadCall /\ result.op = "loadFromFull"
  /\ LoadEv.val # NULL /\ LoadEv.st # 0
  /\ result.kind = "return" /\ facades[result.facade].address = LoadEv.val

(* C3: loaded(name) never throws; when the native is-loaded call returns  *)
(* null it returns a facade wrapping the null address, which no facade of *)
(* a loaded assembly has, and it neither allocates nor reads a status     *)
(* slot.                                                                  *)
C3_LoadedNeverThrows ==
  result.op = "loaded" =>
     /\ result.kind = "return"
     /\ Idx("readInt") = {} /\ Idx("alloc") = {}
     /\ \E k \in Idx("native") :
          /\ log[k].fn = "mono_assembly_loaded"
          /\ facades[result.facade].address = log[k].val
          /\ (log[k].val = NULL) = (result.address = NULL)

C3_Witness ==
  /\ result.op = "loaded" /\ result.kind = "return"
  /\ result.address = NULL /\ facades[result.facade].address = NULL

(* C4 as stated: every load either returns a facade with a non-null       *)
(* address or throws an error whose label is one of the enumerated status *)
(* labels, for every integer the native call leaves in the status slot.   *)
C4_LabelAlwaysEnumerated ==
  IsLoadCall =>
     \/ result.kind = "return" /\ result.address # NULL
     \/ result.kind = "throw" /\ Label \in EnumLabels

(* C4 amended: every load either returns a facade with a non-null, stable *)
(* address or throws; the thrown label is the enumerated label of the     *)
(* status when the status is an enumerated code and the text "undefined"  *)
(* otherwise, never the raw number.                                       *)
C4_ReturnOrClassifiedThrow ==
  IsLoadCall =>
     \/ /\ result.kind = "return" /\ result.address # NULL
        /\ facades[result.facade].address = result.address
        /\ given[result.facade].address = result.address
     \/ /\ result.kind = "throw" /\ result.facade = 0
        /\ (result.status \in EnumCodes => Label = MonoImageOpenStatus[result.status + 1])
        /\ (result.status \notin EnumCodes => Label = UnknownLabel)
        /\ Label # ToString(result.status)

C4_Witness ==
  /\ IsLoadCall /\ result.name \notin {n \in Names : asm[n] # NULL}
  /\ result.kind = "throw" /\ result.status = MaxStatus /\ Label = UnknownLabel

(* C5: decoding the status never fails: every thrown error carries a      *)
(* label; an enumerated code gives an enumerated label and every code     *)
(* outside the enumeration gives one same label that is no enumerated     *)
(* label.                                                                 *)
C5_DecodeTotal ==
  result.kind = "throw" =>
     /\ Len(result.msg) = 2
     /\ (result.status \in EnumCodes => Label \in EnumLabels)
     /\ (result.status \notin EnumCodes => Label = UnknownLabel /\ Label \notin EnumLabels)

C5_Witness ==
  /\ result.kind = "throw" /\ result.status = -1
  /\ Label = UnknownLabel

(* C6: a facade built for address a has address a, for every a including  *)
(* null and the address of no object; close() hands the native call that  *)
(* same address; fromAddress makes no native call; facades built for      *)
(* equal addresses have equal addresses.                                  *)
C6_FromAddressRoundTrip ==
  /\ \A i \in 1..Len(facades) : facades[i].address = given[i].address
  /\ \A i, j \in 1..Len(facades) :
        given[i].address = given[j].address => facades[i].address = facades[j].address
  /\ result.op = "fromAddress" => result.kind = "return" /\ Idx("native") = {}
  /\ result.op = "close" =>
        \A k \in Idx("native") : log[k].val = given[result.facade].address

C6_Witness ==
  /\ result.op = "close" /\ given[result.facade].op = "fromAddress"
  /\ given[result.facade].address = BogusAddr
  /\ \E i \in 1..Len(facades) : i # result.facade /\ facades[i].address = BogusAddr

(* C7 as stated: the native release is issued at most once per owning     *)
(* reference: no facade releases twice, and an address is released no     *)
(* more often than loads have returned it.                                *)
C7_ReleaseAtMostOncePerOwner ==
  /\ \A i \in 1..Len(facades) : facades[i].closes <= 1
  /\ \A a \in Addresses :
        releases[a] <= Cardinality({i \in 1..Len(given) :
                                      given[i].op \in LoadOps /\ given[i].address = a})

(* C7 amended: every close() call issues exactly one native release, with *)
(* the address of the facade it is called on; the layer keeps no guard,   *)
(* so an address has been released as often as close() has been called on *)
(* facades wrapping it.                                                   *)
RECURSIVE ClosesOf(_, _)
ClosesOf(a, i) ==
  IF i = 0 THEN 0
  ELSE ClosesOf(a, i - 1) + (IF facades[i].address = a THEN facades[i].closes ELSE 0)

C7_OneReleasePerClose ==
  /\ \A a \in Addresses : releases[a] = ClosesOf(a, Len(facades))
  /\ result.op = "close" =>
        /\ Cardinality(Idx("native")) = 1
        /\ \A k \in Idx("native") :
             log[k].fn = "mono_assembly_close" /\ log[k].val = facades[result.facade].address

C7_Witness ==
  /\ result.op = "close" /\ facades[result.facade].closes = 2
  /\ releases[facades[result.facade].address] = 2

(* C8 as stated: loaded(name) before any load of the name returns the     *)
(* null facade, and at any point after a load of the name has returned a  *)
(* facade it returns a facade with a non-null address.                    *)
EverLoaded(n) ==
  \E i \in 1..Len(given) : given[i].op \in LoadOps /\ given[i].name = n

SlotIdx == CHOOSE k \in Idx("alloc") : TRUE
TheLoadIdx == CHOOSE k \in LoadIdx : TRUE
AllocatedBefore(b, k) ==
  \E j \in 1..(k - 1) : log[j].ev \in {"alloc", "allocUtf8String"} /\ log[j].bufs = <<b>>

C9_EncodeThenSlotThenOneCall ==
  result.op \in LoadOps =>
     /\ Cardinality(Idx("alloc")) = 1
     /\ \A k \in Idx("allocUtf8String") : k < SlotIdx
     /\ \A k \in Idx("native") : k > SlotIdx
     /\ Cardinality(Idx("native")) = 1

(* C9 amended: every loading operation allocates the one-word status slot *)
(* and encodes each string before the native call that receives it, makes *)
(* exactly one native load call, passing the encoded inputs and the slot, *)
(* and only then inspects the returned address; load and loadFull also    *)
(* call mono_assembly_name_new on the encoded name before the slot is     *)
(* allocated, and a string may be encoded after the slot is allocated.    *)
C9_SlotAndInputsBeforeLoadCall ==
  result.op \in LoadOps =>
     /\ Cardinality(LoadIdx) = 1
     /\ Cardinality(Idx("alloc")) = 1
     /\ log[SlotIdx].val = pointerSize
     /\ SlotIdx < TheLoadIdx
     /\ \A k \in Idx("allocUtf8String") : k < TheLoadIdx
     /\ log[SlotIdx].bufs[1] = log[TheLoadIdx].bufs[Len(log[TheLoadIdx].bufs)]
     /\ \A k \in Idx("native") :
          /\ \A i \in 1..Len(log[k].bufs) : AllocatedBefore(log[k].bufs[i], k)
          /\ k # TheLoadIdx =>
               /\ log[k].fn = "mono_assembly_name_new"
               /\ result.op \in {"load", "loadFull"}
               /\ k < SlotIdx
     /\ \A k \in (TheLoadIdx + 1)..Len(log) : log[k].ev \in {"readInt", "return", "throw"}

C9_Witness ==
  /\ IsLoadCall /\ result.op = "loadFrom" /\ result.kind = "return"
  /\ \E k \in Idx("allocUtf8String") : SlotIdx < k /\ k < TheLoadIdx

(* C10: the scratch buffers of a call are its own: each is allocated      *)
(* fresh by this call and only this call's buffers are passed or read;    *)
(* the status slot is read at most once, after the native load call it    *)
(* was passed to has returned null, never when the call returned an       *)
(* address and never after the operation has returned or thrown.          *)
AllocIdx == Idx("alloc") \cup Idx("allocUtf8String")

C10_ScratchIsCallLocal ==
  /\ DOMAIN mem = {log[k].bufs[1] : k \in AllocIdx}
  /\ Cardinality(DOMAIN mem) = Cardinality(AllocIdx)
  /\ \A b \in DOMAIN mem : bufBase <= b /\ b < nextBuf
  /\ \A k \in 1..Len(log) : \A i \in 1..Len(log[k].bufs) :
        k \notin AllocIdx => AllocatedBefore(log[k].bufs[i], k)
  /\ Cardinality(Idx("readInt")) <= 1
  /\ \A k \in Idx("readInt") :
        /\ k < Len(log)
        /\ result.kind = "throw"
        /\ \E j \in LoadIdx :
             /\ j < k /\ log[j].val = NULL
             /\ log[k].bufs[1] = log[j].bufs[Len(log[j].bufs)]
             /\ mem[log[k].bufs[1]].kind = "raw"
  /\ log # <<>> => /\ log[Len(log)].ev \in {"return", "throw"}
                   /\ Idx("return") \cup Idx("throw") = {Len(log)}

C10_Witness ==
  /\ ncalls >= 2 /\ bufBase > 1
  /\ result.op = "loadFull" /\ result.kind = "throw"
  /\ Cardinality(Idx("readInt")) = 1
  /\ Cardinality(DOMAIN mem) = 3

====
